---- MODULE Spec2Model ----
(***************************************************************************)
(* Huffman text codec of src/main.py: class FileCompression (frequency     *)
(* count, heapq min-heap of BinaryTreeNode, tree build, code generation,   *)
(* encoding, padding, byte packing, unpacking and greedy decoding).        *)
(*                                                                         *)
(* Python strings of "0"/"1" are sequences over {0, 1}; a text is a        *)
(* sequence of one-character symbols; a dict is a set of <<key, value>>    *)
(* pairs with at most one pair per key (freq_dict, whose iteration order   *)
(* matters, is a sequence of pairs); BinaryTreeNode objects live in a pool *)
(* (sequence of records) and are referred to by their index, 0 being None. *)
(***************************************************************************)
EXTENDS Integers, Sequences, FiniteSets, TLC

(* ------------------------------ bounds --------------------------------- *)
\* longest text compressed by main()
MaxLen == 4
\* longest text compressed on an instance that is used more than once
MaxReuseLen == 3
\* compress calls on one instance
MaxCalls == 2
\* longest bit sequence handed to _add_padding on its own
MaxBits == 9

Symbols == {"a", "b", "c"}
\* byte buffers that did not come out of compress
ForeignBuffers == {<<>>, <<3, 8>>, <<9, 0>>}

NoneVal == "None"
Texts(n) == UNION {[1..k -> Symbols] : k \in 0..n}
BitSeqs(n) == UNION {[1..k -> {0, 1}] : k \in 0..n}

(* --------------------------- Python helpers ---------------------------- *)
\* str.count(char) for a one-character argument
Count(text, char) == Cardinality({i \in 1..Len(text) : text[i] = char})

\* set(text)
CharSet(text) == {text[i] : i \in 1..Len(text)}

\* the orders in which iterating set(text) can deliver its elements
Orders(text) ==
    LET S == CharSet(text)
        n == Cardinality(S)
    IN {o \in [1..n -> S] : \A i, j \in 1..n : i # j => o[i] # o[j]}

\* dict lookup and item assignment
HasKey(d, k) == \E p \in d : p[1] = k
Get(d, k) == (CHOOSE p \in d : p[1] = k)[2]
Put(d, k, v) == {p \in d : p[1] # k} \cup {<<k, v>>}
Keys(d) == {p[1] : p \in d}

\* int(bits, 2)
RECURSIVE BitsToInt(_)
BitsToInt(bits) ==
    IF bits = <<>> THEN 0
    ELSE 2 * BitsToInt(SubSeq(bits, 1, Len(bits) - 1)) + bits[Len(bits)]

\* the binary digits of n, most significant first ("" for 0)
RECURSIVE Digits(_)
Digits(n) == IF n = 0 THEN <<>> ELSE Append(Digits(n \div 2), n % 2)

Zeros(n) == [i \in 1..n |-> 0]

\* f"{n:08b}": binary, zero-filled on the left to a width of at least 8
Format08b(n) ==
    LET d == IF n = 0 THEN <<0>> ELSE Digits(n)
    IN IF Len(d) >= 8 THEN d ELSE Zeros(8 - Len(d)) \o d

(* --------------------------- BinaryTreeNode ---------------------------- *)
\* BinaryTreeNode(value, freq)
NewNode(value, freq) == [value |-> value, freq |-> freq, left |-> 0, right |-> 0]

\* the comparison of a max-heap
NodeLtReversed(nodes, x, y) == nodes[x].freq > nodes[y].freq

\* BinaryTreeNode.__lt__ on the nodes with indices x and y
NodeLt(nodes, x, y) == nodes[x].freq < nodes[y].freq

(* -------------------------------- heapq -------------------------------- *)
\* positions are 0-based as in heapq; heap[pos + 1] is Python's heap[pos]
RECURSIVE SiftDownLoop(_, _, _, _, _)
SiftDownLoop(nodes, heap, startpos, pos, newitem) ==
    IF pos > startpos
    THEN LET parentpos == (pos - 1) \div 2
             parent == heap[parentpos + 1]
         IN IF NodeLt(nodes, newitem, parent)
            THEN SiftDownLoop(nodes, [heap EXCEPT ![pos + 1] = parent],
                              startpos, parentpos, newitem)
            ELSE [heap EXCEPT ![pos + 1] = newitem]
    ELSE [heap EXCEPT ![pos + 1] = newitem]

SiftDown(nodes, heap, startpos, pos) ==
    SiftDownLoop(nodes, heap, startpos, pos, heap[pos + 1])

RECURSIVE SiftUpLoop(_, _, _, _, _)
SiftUpLoop(nodes, heap, startpos, pos, newitem) ==
    LET endpos == Len(heap)
        childpos == 2 * pos + 1
        rightpos == childpos + 1
        pick == IF rightpos < endpos
                   /\ ~NodeLt(nodes, heap[childpos + 1], heap[rightpos + 1])
                THEN rightpos ELSE childpos
    IN IF childpos < endpos
       THEN SiftUpLoop(nodes, [heap EXCEPT ![pos + 1] = heap[pick + 1]],
                       startpos, pick, newitem)
       ELSE SiftDown(nodes, [heap EXCEPT ![pos + 1] = newitem], startpos, pos)

SiftUp(nodes, heap, pos) == SiftUpLoop(nodes, heap, pos, pos, heap[pos + 1])

\* heapq.heappush(heap, item): the heap afterwards
HeapPush(nodes, heap, item) ==
    SiftDown(nodes, Append(heap, item), 0, Len(heap))

\* heapq.heappop(heap) on a non-empty heap: the item returned and the heap afterwards
HeapPop(nodes, heap) ==
    LET lastelt == heap[Len(heap)]
        rest == SubSeq(heap, 1, Len(heap) - 1)
    IN IF rest # <<>>
       THEN [item |-> rest[1],
             heap |-> SiftUp(nodes, [rest EXCEPT ![1] = lastelt], 0)]
       ELSE [item |-> lastelt, heap |-> rest]

(* --------------------------- FileCompression --------------------------- *)
\* _build_frequency_dict: one (char, count) item per element of set(text),
\* in the order the set delivers them
BuildFrequencyDict(text, order) ==
    [i \in 1..Len(order) |-> <<order[i], Count(text, order[i])>>]

\* _build_heap: the node pool and the heap after pushing one node per item
RECURSIVE BuildHeapLoop(_, _, _, _)
BuildHeapLoop(freq_dict, i, nodes, heap) ==
    IF i > Len(freq_dict) THEN [nodes |-> nodes, heap |-> heap]
    ELSE LET nodes2 == Append(nodes, NewNode(freq_dict[i][1], freq_dict[i][2]))
         IN BuildHeapLoop(freq_dict, i + 1, nodes2,
                          HeapPush(nodes2, heap, Len(nodes2)))

BuildHeap(freq_dict) == BuildHeapLoop(freq_dict, 1, <<>>, <<>>)

\* the merge loop with the right child's freq left out of the sum
RECURSIVE MergeLoopLeftFreq(_, _)
MergeLoopLeftFreq(nodes, heap) ==
    IF Len(heap) > 1
    THEN LET p1 == HeapPop(nodes, heap)
             p2 == HeapPop(nodes, p1.heap)
             merged == [NewNode(NoneVal, nodes[p1.item].freq)
                            EXCEPT !.left = p1.item, !.right = p2.item]
             nodes2 == Append(nodes, merged)
         IN MergeLoopLeftFreq(nodes2, HeapPush(nodes2, p2.heap, Len(nodes2)))
    ELSE [nodes |-> nodes, heap |-> heap]

\* the while loop of _build_huffman_tree
RECURSIVE MergeLoop(_, _)
MergeLoop(nodes, heap) ==
    IF Len(heap) > 1
    THEN LET p1 == HeapPop(nodes, heap)
             p2 == HeapPop(nodes, p1.heap)
             merged == [NewNode(NoneVal, nodes[p1.item].freq + nodes[p2.item].freq)
                            EXCEPT !.left = p1.item, !.right = p2.item]
             nodes2 == Append(nodes, merged)
         IN MergeLoop(nodes2, HeapPush(nodes2, p2.heap, Len(nodes2)))
    ELSE [nodes |-> nodes, heap |-> heap]

\* _build_huffman_tree: heap[0] of an empty list raises IndexError
BuildHuffmanTree(nodes, heap) ==
    LET m == MergeLoop(nodes, heap)
    IN IF m.heap = <<>>
       THEN [nodes |-> m.nodes, heap |-> m.heap, root |-> 0, error |-> "IndexError"]
       ELSE [nodes |-> m.nodes, heap |-> m.heap, root |-> m.heap[1], error |-> "none"]

\* _generate_codes descending right without appending "1"
RECURSIVE GenerateCodesNoOne(_, _, _, _)
GenerateCodesNoOne(nodes, node, code, t) ==
    IF node = 0 THEN t
    ELSE LET t1 == IF nodes[node].value # NoneVal
                   THEN [codes |-> Put(t.codes, nodes[node].value, code),
                         reverse_codes |-> Put(t.reverse_codes, code, nodes[node].value)]
                   ELSE t
             t2 == GenerateCodesNoOne(nodes, nodes[node].left, Append(code, 0), t1)
         IN GenerateCodesNoOne(nodes, nodes[node].right, code, t2)

\* _generate_codes(node, code) on the tables t = [codes, reverse_codes]
RECURSIVE GenerateCodes(_, _, _, _)
GenerateCodes(nodes, node, code, t) ==
    IF node = 0 THEN t
    ELSE LET t1 == IF nodes[node].value # NoneVal
                   THEN [codes |-> Put(t.codes, nodes[node].value, code),
                         reverse_codes |-> Put(t.reverse_codes, code, nodes[node].value)]
                   ELSE t
             t2 == GenerateCodes(nodes, nodes[node].left, Append(code, 0), t1)
         IN GenerateCodes(nodes, nodes[node].right, Append(code, 1), t2)

\* _encode_text: every symbol of text is a key of codes when compress calls it
RECURSIVE EncodeText(_, _)
EncodeText(cds, text) ==
    IF text = <<>> THEN <<>>
    ELSE Get(cds, Head(text)) \o EncodeText(cds, Tail(text))

\* a padding count that is 0 for a text that already fills its last byte
PaddingSizeMod8(encoded_text) == (8 - (Len(encoded_text) % 8)) % 8

\* the local padding of _add_padding
PaddingSize(encoded_text) == 8 - (Len(encoded_text) % 8)

\* _add_padding
AddPadding(encoded_text) ==
    Format08b(PaddingSize(encoded_text)) \o encoded_text
        \o Zeros(PaddingSize(encoded_text))

\* _convert_to_bytes: one int per slice [i:i+8], the last slice may be short
RECURSIVE ConvertToBytes(_)
ConvertToBytes(bits) ==
    IF bits = <<>> THEN <<>>
    ELSE IF Len(bits) <= 8 THEN <<BitsToInt(bits)>>
    ELSE <<BitsToInt(SubSeq(bits, 1, 8))>> \o ConvertToBytes(SubSeq(bits, 9, Len(bits)))

\* the read loop of decompress: f"{ord(byte):08b}" for every byte of the file
RECURSIVE BytesToBits(_)
BytesToBits(bytes) ==
    IF bytes = <<>> THEN <<>>
    ELSE Format08b(Head(bytes)) \o BytesToBits(Tail(bytes))

\* the slice taken from index 7
Slice7(bit_string, stop) ==
    IF stop > 8 THEN SubSeq(bit_string, 8, stop) ELSE <<>>

\* the slice bit_string[8:stop] for 0 <= stop <= len(bit_string)
Slice8(bit_string, stop) ==
    IF stop > 8 THEN SubSeq(bit_string, 9, stop) ELSE <<>>

\* _remove_padding: int("", 2) raises ValueError; a negative slice end that
\* reaches before the start of the string is clamped to 0
RemovePadding(bit_string) ==
    IF bit_string = <<>>
    THEN [bits |-> <<>>, padding_size |-> 0, error |-> "ValueError"]
    ELSE LET padding_info == SubSeq(bit_string, 1, IF Len(bit_string) < 8
                                                   THEN Len(bit_string) ELSE 8)
             padding_size == BitsToInt(padding_info)
             stop == IF padding_size > Len(bit_string) THEN 0
                     ELSE Len(bit_string) - padding_size
         IN [bits |-> IF padding_size # 0 THEN Slice8(bit_string, stop)
                      ELSE Slice8(bit_string, Len(bit_string)),
             padding_size |-> padding_size,
             error |-> "none"]

\* _decode_text: the locals decoded_text and current_code when the loop ends
RECURSIVE DecodeLoop(_, _, _, _)
DecodeLoop(rcodes, bits, current_code, decoded_text) ==
    IF bits = <<>>
    THEN [decoded_text |-> decoded_text, current_code |-> current_code]
    ELSE LET cc == Append(current_code, Head(bits))
         IN IF HasKey(rcodes, cc)
            THEN DecodeLoop(rcodes, Tail(bits), <<>>, Append(decoded_text, Get(rcodes, cc)))
            ELSE DecodeLoop(rcodes, Tail(bits), cc, decoded_text)

DecodeText(rcodes, bits) == DecodeLoop(rcodes, bits, <<>>, <<>>)

(* -------------------------------- state -------------------------------- *)
VARIABLES
    pc,                  \* what the last call did
    calls,               \* compress calls made on the instance
    codes,               \* self.codes
    reverse_codes,       \* self.reverse_codes
    text,                \* the text read by the last compress
    freq_dict,           \* locals of the last compress
    nodes,
    heap,
    root,
    encoded_text,
    padded_encoded_text,
    out_file,            \* the .bin file: <<>> while absent, else <<byte_data>>
    dec_input,           \* which buffer the last decompress read
    in_bytes,            \* the bytes the last decompress read
    padding_size,        \* locals of the last decompress
    bit_string,
    current_code,
    dec_file,            \* the _decompressed.txt file: <<>> while absent, else <<text>>
    error                \* the exception the last call raised, "none" if it returned

instance_vars == <<codes, reverse_codes>>
compress_vars == <<text, freq_dict, nodes, heap, root, encoded_text,
                   padded_encoded_text, out_file>>
decompress_vars == <<dec_input, in_bytes, padding_size, bit_string, current_code,
                     dec_file>>
vars == <<pc, calls, instance_vars, compress_vars, decompress_vars, error>>

\* FileCompression.__init__ and no call made yet
Constructed ==
    /\ calls = 0
    /\ codes = {}
    /\ reverse_codes = {}
    /\ error = "none"

\* no compress has run: its locals and its output file do not exist
NoCompress ==
    /\ text = <<>>
    /\ freq_dict = <<>>
    /\ nodes = <<>>
    /\ heap = <<>>
    /\ root = 0
    /\ padded_encoded_text = <<>>
    /\ out_file = <<>>

\* no decompress has run
NoDecompress ==
    /\ dec_input = "none"
    /\ in_bytes = <<>>
    /\ padding_size = 0
    /\ bit_string = <<>>
    /\ current_code = <<>>
    /\ dec_file = <<>>

Init ==
    /\ pc = "ready"
    /\ Constructed
    /\ NoCompress
    /\ encoded_text = <<>>
    /\ NoDecompress

\* the body of compress() on the text t when set(t) iterates in order and the
\* instance holds the tables cds and rcds: every local, and the exception raised
CompressRun(t, order, cds, rcds) ==
    LET fd == BuildFrequencyDict(t, order)
        h == BuildHeap(fd)
        tree == BuildHuffmanTree(h.nodes, h.heap)
        tabs == GenerateCodes(tree.nodes, tree.root, <<>>,
                              [codes |-> cds, reverse_codes |-> rcds])
        enc == EncodeText(tabs.codes, t)
        padded == AddPadding(enc)
    IN IF tree.error # "none"
       THEN [error |-> tree.error, freq_dict |-> fd, nodes |-> tree.nodes,
             heap |-> tree.heap, root |-> tree.root,
             codes |-> cds, reverse_codes |-> rcds]
       ELSE [error |-> "none", freq_dict |-> fd, nodes |-> tree.nodes,
             heap |-> tree.heap, root |-> tree.root,
             codes |-> tabs.codes, reverse_codes |-> tabs.reverse_codes,
             encoded_text |-> enc, padded_encoded_text |-> padded,
             byte_data |-> ConvertToBytes(padded)]

\* compress() when the file at self.path holds t and set(t) iterates in order
Compress(t, order) ==
    \E r \in {CompressRun(t, order, codes, reverse_codes)} :
       /\ calls' = calls + 1
       /\ text' = t
       /\ freq_dict' = r.freq_dict
       /\ nodes' = r.nodes
       /\ heap' = r.heap
       /\ root' = r.root
       /\ UNCHANGED decompress_vars
       /\ error' = r.error
       /\ IF r.error # "none"
          THEN /\ pc' = "compress_failed"
               /\ UNCHANGED <<instance_vars, encoded_text, padded_encoded_text, out_file>>
          ELSE /\ pc' = "compressed"
               /\ codes' = r.codes
               /\ reverse_codes' = r.reverse_codes
               /\ encoded_text' = r.encoded_text
               /\ padded_encoded_text' = r.padded_encoded_text
               /\ out_file' = <<r.byte_data>>

\* decompress(input_path) when the file at input_path holds buf
Decompress(buf, which) ==
    LET unp == RemovePadding(BytesToBits(buf))
        dec == DecodeText(reverse_codes, unp.bits)
    IN /\ dec_input' = which
       /\ in_bytes' = buf
       /\ padding_size' = unp.padding_size
       /\ bit_string' = unp.bits
       /\ error' = unp.error
       /\ UNCHANGED <<calls, instance_vars, compress_vars>>
       /\ IF unp.error # "none"
          THEN /\ pc' = "decompress_failed"
               /\ UNCHANGED <<current_code, dec_file>>
          ELSE /\ pc' = "decompressed"
               /\ current_code' = dec.current_code
               /\ dec_file' = <<dec.decoded_text>>

(* main(): one instance, compress, then decompress of the file compress wrote *)
MainCompress ==
    /\ pc = "ready"
    /\ \E t \in Texts(MaxLen) : \E order \in Orders(t) : Compress(t, order)

MainDecompress ==
    /\ pc = "compressed"
    /\ Decompress(out_file[1], "compressed_file")

NextMain == MainCompress \/ MainDecompress

SpecMain == Init /\ [][NextMain]_vars

(* an instance driven through its methods: any number of calls in any order *)
Running == pc \in {"ready", "compressed", "compress_failed", "decompressed",
                   "decompress_failed"}

CallCompress ==
    /\ Running
    /\ calls < MaxCalls
    /\ \E t \in Texts(MaxReuseLen) : \E order \in Orders(t) : Compress(t, order)

CallDecompressOwn ==
    /\ pc = "compressed"
    /\ Decompress(out_file[1], "compressed_file")

CallDecompressOther ==
    /\ Running
    /\ \E buf \in ForeignBuffers : Decompress(buf, "other")

Next == CallCompress \/ CallDecompressOwn \/ CallDecompressOther

Spec == Init /\ [][Next]_vars

(* the bit packer on its own: _add_padding and _convert_to_bytes applied to an *)
(* arbitrary encoded text, then the read loop of decompress and _remove_padding *)
InitPad ==
    /\ pc = "pack_input"
    /\ Constructed
    /\ NoCompress
    /\ encoded_text \in BitSeqs(MaxBits)
    /\ NoDecompress

Pack ==
    /\ pc = "pack_input"
    /\ pc' = "packed"
    /\ padded_encoded_text' = AddPadding(encoded_text)
    /\ out_file' = <<ConvertToBytes(AddPadding(encoded_text))>>
    /\ UNCHANGED <<calls, instance_vars, text, freq_dict, nodes, heap, root,
                   encoded_text, decompress_vars, error>>

Unpack ==
    /\ pc = "packed"
    /\ LET unp == RemovePadding(BytesToBits(out_file[1]))
       IN /\ pc' = "unpacked"
          /\ dec_input' = "compressed_file"
          /\ in_bytes' = out_file[1]
          /\ padding_size' = unp.padding_size
          /\ bit_string' = unp.bits
          /\ error' = unp.error
    /\ UNCHANGED <<calls, instance_vars, compress_vars, current_code, dec_file>>

NextPad == Pack \/ Unpack

SpecPad == InitPad /\ [][NextPad]_vars

(* ------------------------------ properties ----------------------------- *)
Distinct(t) == Cardinality(CharSet(t))
CodeOf(c) == Get(codes, c)
IsPrefix(s, t) == Len(s) <= Len(t) /\ SubSeq(t, 1, Len(s)) = s

\* the nodes of the tree below and including node n
RECURSIVE Subtree(_, _)
Subtree(ns, n) ==
    IF n = 0 THEN {}
    ELSE {n} \cup Subtree(ns, ns[n].left) \cup Subtree(ns, ns[n].right)

\* C1: round trip. After main() has compressed a text with at least two distinct
\* symbols and decompressed the file compress wrote, on the same instance, the
\* decompressed text is the input text.
RoundTrip ==
    (pc = "decompressed" /\ dec_input = "compressed_file" /\ Distinct(text) >= 2)
        => dec_file = <<text>>

RoundTripWitness ==
    /\ pc = "decompressed"
    /\ dec_input = "compressed_file"
    /\ Distinct(text) = 3
    /\ Len(text) = 4
    /\ dec_file = <<text>>

\* C2: single-symbol input. After compressing and decompressing a non-empty text
\* with exactly one distinct symbol, that symbol's code has exactly 1 bit and the
\* decompressed text is the input text.
SingleSymbolRoundTrip ==
    (pc = "decompressed" /\ dec_input = "compressed_file" /\ Distinct(text) = 1)
        => /\ Len(CodeOf(text[1])) = 1
           /\ dec_file = <<text>>

\* C3: empty input. A compress call on the empty text fails with EmptyInputError
\* and writes no compressed buffer.
EmptyInputFails ==
    (calls = 1 /\ text = <<>>)
        => /\ pc = "compress_failed"
           /\ error = "EmptyInputError"
           /\ out_file = <<>>

\* C4: malformed stream. A decompress call fails with MalformedStreamError when
\* (a) the buffer holds fewer than 8 bits, (b) the padding count exceeds the bits
\* that follow the header, or (c) decoding ends with a non-empty unmatched
\* candidate.
MalformedStreamFails ==
    (/\ pc \in {"decompressed", "decompress_failed"}
     /\ \/ 8 * Len(in_bytes) < 8
        \/ padding_size > 8 * Len(in_bytes) - 8
        \/ (pc = "decompressed" /\ current_code # <<>>))
        => /\ pc = "decompress_failed"
           /\ error = "MalformedStreamError"

\* C5: prefix-free. In the code table compress derives, no code is a prefix of a
\* different code.
PrefixFree ==
    pc = "compressed"
        => \A p, q \in codes :
               p[2] # q[2] => ~IsPrefix(p[2], q[2]) /\ ~IsPrefix(q[2], p[2])

PrefixFreeWitness ==
    /\ pc = "compressed"
    /\ Cardinality(codes) = 3
    /\ \E p, q \in codes : Len(p[2]) < Len(q[2])

\* C6: padding range. For every encoded bit sequence B the padded text is an
\* 8-bit header holding a padding count in 1..8, then B, then that many zero
\* bits, and its length is a multiple of 8.
PaddingRange ==
    pc \in {"packed", "unpacked"}
        => LET header == SubSeq(padded_encoded_text, 1, 8)
               padding == BitsToInt(header)
               B == encoded_text
           IN /\ padding \in 1..8
              /\ padded_encoded_text = header \o B \o Zeros(padding)
              /\ Len(padded_encoded_text) % 8 = 0

PaddingRangeWitness ==
    /\ pc = "packed"
    /\ Len(encoded_text) = 8
    /\ BitsToInt(SubSeq(padded_encoded_text, 1, 8)) = 8
    /\ Len(padded_encoded_text) = 24

\* C7 as stated: for symbols a and b of the text with freq(a) >= freq(b), the
\* code of a is no longer than the code of b.
FrequencyLengthMonotone ==
    pc = "compressed"
        => \A a, b \in CharSet(text) :
               Count(text, a) >= Count(text, b) => Len(CodeOf(a)) <= Len(CodeOf(b))

\* C7 amended: for symbols a and b of the text with freq(a) > freq(b), the code
\* of a is no longer than the code of b.
StrictFrequencyLengthMonotone ==
    pc = "compressed"
        => \A a, b \in CharSet(text) :
               Count(text, a) > Count(text, b) => Len(CodeOf(a)) <= Len(CodeOf(b))

StrictFrequencyLengthWitness ==
    /\ pc = "compressed"
    /\ \E a, b \in CharSet(text) :
           Count(text, a) > Count(text, b) /\ Len(CodeOf(a)) < Len(CodeOf(b))

\* C8: deterministic table. The tables compress derives depend only on the
\* frequency table: every order in which its entries can be pushed onto the heap
\* gives the same codes and reverse_codes.
DeterministicTable ==
    pc = "compressed"
        => \A o \in Orders(text) :
               /\ CompressRun(text, o, {}, {}).codes = codes
               /\ CompressRun(text, o, {}, {}).reverse_codes = reverse_codes

\* C9: table consistency across calls. After every completed compress call, also
\* one that follows earlier calls on the instance, codes and reverse_codes are
\* inverses of each other, the codes are distinct, and the keys are the symbols
\* of the latest text; a decompress that follows reproduces that text (stated
\* for texts with two or more distinct symbols, the texts C1 is about).
TableConsistent ==
    /\ pc = "compressed"
           => /\ reverse_codes = {<<p[2], p[1]>> : p \in codes}
              /\ \A p, q \in codes : p[2] = q[2] => p = q
              /\ Keys(codes) = CharSet(text)
    /\ (pc = "decompressed" /\ dec_input = "compressed_file" /\ Distinct(text) >= 2)
           => dec_file = <<text>>

\* C10: tree construction. After compress on a non-empty text the heap holds
\* exactly one node, the root; below it every internal node has two children and
\* the sum of their freq, every node that carries a symbol is a leaf, every
\* symbol of the frequency table is the value of exactly one node, and the
\* root's freq is the length of the text.
TreeWellFormed ==
    pc = "compressed"
        => LET T == Subtree(nodes, root)
           IN /\ Len(heap) = 1
              /\ heap[1] = root
              /\ \A n \in T :
                     IF nodes[n].value = NoneVal
                     THEN /\ nodes[n].left \in T
                          /\ nodes[n].right \in T
                          /\ nodes[n].left # nodes[n].right
                          /\ nodes[n].freq = nodes[nodes[n].left].freq
                                             + nodes[nodes[n].right].freq
                     ELSE nodes[n].left = 0 /\ nodes[n].right = 0
              /\ \A i \in 1..Len(freq_dict) :
                     Cardinality({n \in T : nodes[n].value = freq_dict[i][1]}) = 1
              /\ nodes[root].freq = Len(text)

TreeWellFormedWitness ==
    /\ pc = "compressed"
    /\ Len(freq_dict) = 3
    /\ Cardinality(Subtree(nodes, root)) = 5
    /\ nodes[root].value = NoneVal

====
